---- MODULE Spec2Model ----
(***************************************************************************)
(* RecycleOps AI Assistant: the conversation lifecycle tracker, the        *)
(* learning scheduler's poll job and the persistence of one extraction     *)
(* outcome.                                                                *)
(*                                                                         *)
(* Time is counted in hours.  The relational database is modelled by its   *)
(* committed state (conv, solutions, experts) plus the uncommitted writes  *)
(* of the poll job's session (sess); the vector index (vindex) is outside  *)
(* the database transaction.  A thread is identified by its (channel,      *)
(* thread) key, abstracted to a number.                                    *)
(*                                                                         *)
(* Failures modelled: the thread fetch, the analysis oracle and the        *)
(* vector-index insertion (embedding or index).  Statements of the         *)
(* relational database itself are taken to succeed.  The scheduler is      *)
(* modelled by the behaviour its job_defaults ask for: a run of a job is   *)
(* started only while fewer than max_instances runs of it are in flight.   *)
(* Columns no property reads (first_message_ts, detected_error_pattern,    *)
(* severity, processed_at, the text fields of a Solution) are left out.    *)
(***************************************************************************)
EXTENDS Integers, Sequences, FiniteSets, TLC

(* ---------------- bounds of the model ---------------- *)
NThreads == 2
TickHours == 6
MaxTime == 18
MaxMsgs == 2
MaxSolutions == 1
MaxLimit == 2
MaxResults == 3
MaxExpertUpdates == 3
RouteLimit == 3
MaxWords == 3
MaxThreadLen == 4
MaxChars == 6
MaxCalls == 3
NSolutionRows == 2
MaxFeedback == 3

(* ---------------- program constants ---------------- *)
Delay == 12
BatchLimit == 50
MinMessages == 2

Threads == 1..NThreads
Users == {"U1"}
NoUser == "none"
NoSolution == 0
Categories == {"motor"}
NoCategory == "none"

VARIABLES now, conv, blocked, solutions, vindex, experts,
          instances, skipped, limit, batch, idx, outcome, sess,
          anyError,  \* history: some completed call on the thread was an error candidate
          forced,    \* the force-processing call that ran last
          rows, trk, \* the Conversation table row by row, the tracking calls in flight
                     \* (history: started, and done per thread)
          call, ret  \* a service call under examination and what it returned

vars == <<now, conv, blocked, solutions, vindex, experts,
          instances, skipped, limit, batch, idx, outcome, sess, anyError,
          forced, rows, trk, call, ret>>

\* The variables of the learning pipeline, and those of the other services.
pipelineVars == <<now, conv, blocked, solutions, vindex, experts,
                  instances, skipped, limit, batch, idx, outcome, sess, anyError>>
serviceVars == <<forced, rows, trk, call, ret>>

Min(a, b) == IF a <= b THEN a ELSE b

(* ---------------- Conversation rows ---------------- *)
NoConv ==
  [exists |-> FALSE, last_message_ts |-> 0, message_count |-> 0,
   is_error_thread |-> FALSE, process_after |-> 0, is_processed |-> FALSE,
   is_resolved |-> "null", extracted_solution_id |-> NoSolution]

\* The row a first message creates (column defaults of the Conversation model).
NewConversation(message_ts, is_error_thread) ==
  [exists |-> TRUE, last_message_ts |-> message_ts, message_count |-> 1,
   is_error_thread |-> is_error_thread, process_after |-> message_ts + Delay,
   is_processed |-> FALSE, is_resolved |-> "null",
   extracted_solution_id |-> NoSolution]

\* Mutant: the update branch forgets to recompute process_after.
Mut_UpdateKeepsDeadline(r, message_ts, is_error_thread) ==
  [r EXCEPT !.last_message_ts = message_ts,
            !.message_count = r.message_count + 1,
            !.is_error_thread = IF is_error_thread THEN TRUE ELSE r.is_error_thread,
            !.is_processed = FALSE]

\* Mutant: the update branch assigns the flag instead of only raising it.
Mut_UpdateAssignsErrorFlag(r, message_ts, is_error_thread) ==
  [r EXCEPT !.last_message_ts = message_ts,
            !.message_count = r.message_count + 1,
            !.is_error_thread = is_error_thread,
            !.process_after = message_ts + Delay,
            !.is_processed = FALSE]

\* The attribute assignments of the update branch, applied to the row r.
UpdateConversation(r, message_ts, is_error_thread) ==
  [r EXCEPT !.last_message_ts = message_ts,
            !.message_count = r.message_count + 1,
            !.is_error_thread = IF is_error_thread THEN TRUE ELSE r.is_error_thread,
            !.process_after = message_ts + Delay,
            !.is_processed = FALSE]

\* ConversationRepository.create_or_update on the row it selected.
CreateOrUpdate(r, message_ts, is_error_thread) ==
  IF r.exists THEN UpdateConversation(r, message_ts, is_error_thread)
  ELSE NewConversation(message_ts, is_error_thread)

\* The UPDATE statement of mark_as_processed: four columns of one row.
MarkAsProcessed(r, solution_id, is_resolved) ==
  [r EXCEPT !.is_processed = TRUE,
            !.extracted_solution_id = solution_id,
            !.is_resolved = IF is_resolved THEN "true" ELSE "false"]

(* ---------------- the poll's query ---------------- *)
\* Mutant: the WHERE clause without the is_error_thread condition.
Mut_IsPendingAnyThread(r, t) ==
  r.exists /\ r.is_processed = FALSE /\ r.process_after <= t

\* The WHERE clause of get_pending_for_processing.
IsPending(r, t) ==
  r.exists /\ r.is_processed = FALSE /\ r.is_error_thread = TRUE
           /\ r.process_after <= t

\* Mutant: the query without its ORDER BY.
Mut_Unordered(table, s) == TRUE

\* ORDER BY process_after: rows with equal keys come in any order.
OrderedBy(table, s) ==
  \A i, j \in DOMAIN s : i < j => table[s[i]].process_after <= table[s[j]].process_after

\* The result lists the query can return: the matching rows in ascending
\* process_after, cut to the first lim.
GetPendingForProcessing(table, t, lim) ==
  LET due == {c \in DOMAIN table : IsPending(table[c], t)}
      n == Cardinality(due)
      all == {s \in [1..n -> due] :
                /\ \A i, j \in 1..n : i # j => s[i] # s[j]
                /\ OrderedBy(table, s)}
  IN {SubSeq(s, 1, Min(lim, n)) : s \in all}

(* ---------------- the poll job's session ---------------- *)
NoMark == [set |-> FALSE, solution_id |-> NoSolution, is_resolved |-> FALSE]
\* No Expert row.  A NULL array column is the empty set.
NoExpert ==
  [exists |-> FALSE, solution_count |-> 0, expertise_areas |-> {},
   machine_types |-> {}, is_available |-> TRUE]

EmptySession ==
  [marks |-> [c \in Threads |-> NoMark], sols |-> {}, experts |-> [u \in Users |-> NoExpert],
   touched |-> {}]

NoBlocked == [set |-> FALSE, message_ts |-> 0, is_error_thread |-> FALSE]

\* No force-processing call has run.
NoForced == [kind |-> "none"]

\* No call of the other services is in progress.
ServicesIdle ==
  /\ forced = NoForced
  /\ rows = <<>>
  /\ trk = <<>>
  /\ call = [fn |-> "none"]
  /\ ret = [fn |-> "none"]

Init ==
  /\ now = 0
  /\ conv = [c \in Threads |-> NoConv]
  /\ blocked = [c \in Threads |-> NoBlocked]
  /\ solutions = {}
  /\ vindex = {}
  /\ experts = [u \in Users |-> NoExpert]
  /\ instances = 0
  /\ skipped = FALSE
  /\ limit = BatchLimit
  /\ batch = <<>>
  /\ idx = 1
  /\ outcome = <<>>
  /\ sess = EmptySession
  /\ anyError = [c \in Threads |-> FALSE]
  /\ ServicesIdle

\* Time passes.
Advance ==
  /\ now + TickHours <= MaxTime
  /\ now' = now + TickHours
  /\ UNCHANGED <<conv, blocked, solutions, vindex, experts, instances, skipped,
                 limit, batch, idx, outcome, sess, anyError>>
  /\ UNCHANGED serviceVars

(* ---------------- message tracking ---------------- *)
\* The UPDATE the unit of work flushes for a row it loaded as r and changed
\* to u: only the columns whose value changed are written, on top of the
\* row m that is current when the statement runs.
FlushUpdate(r, u, m) ==
  [m EXCEPT !.last_message_ts = IF u.last_message_ts # r.last_message_ts
                                THEN u.last_message_ts ELSE @,
            !.message_count = IF u.message_count # r.message_count
                              THEN u.message_count ELSE @,
            !.is_error_thread = IF u.is_error_thread # r.is_error_thread
                                THEN u.is_error_thread ELSE @,
            !.process_after = IF u.process_after # r.process_after
                              THEN u.process_after ELSE @,
            !.is_processed = IF u.is_processed # r.is_processed
                             THEN u.is_processed ELSE @]

RECURSIVE SumOver(_, _)
SumOver(f, S) ==
  IF S = {} THEN 0
  ELSE LET x == CHOOSE y \in S : TRUE IN f[x] + SumOver(f, S \ {x})

\* The messages delivered so far.
TotalMessages ==
  SumOver([c \in Threads |-> conv[c].message_count + IF blocked[c].set THEN 1 ELSE 0],
          Threads)

\* handle_message -> ConversationService.track_message for one message of
\* thread c, stamped with the current time.  While the poll's session holds
\* an uncommitted UPDATE of the row, the flush waits for that transaction.
Track(c, is_error) ==
  /\ TotalMessages < MaxMsgs
  /\ ~blocked[c].set
  /\ IF sess.marks[c].set
     THEN /\ blocked' = [blocked EXCEPT ![c] =
                 [set |-> TRUE, message_ts |-> now, is_error_thread |-> is_error]]
          /\ UNCHANGED <<conv, anyError>>
     ELSE /\ conv' = [conv EXCEPT ![c] = CreateOrUpdate(conv[c], now, is_error)]
          /\ anyError' = [anyError EXCEPT ![c] = @ \/ is_error]
          /\ blocked' = blocked
  /\ UNCHANGED <<now, solutions, vindex, experts, instances, skipped, limit,
                 batch, idx, outcome, sess>>
  /\ UNCHANGED serviceVars

(* ---------------- the scheduler ---------------- *)
\* Mutant: the job may run twice at a time.
Mut_TwoInstances == 1 + 1

\* job_defaults max_instances of the scheduler.
MaxInstances == 1

\* The interval trigger fires the poll job.  With fewer than max_instances
\* runs in flight a run starts and selects its batch; otherwise the run is
\* skipped.
PollTick ==
  /\ UNCHANGED serviceVars
  /\ IF instances < MaxInstances
     THEN /\ instances' = instances + 1
          /\ IF instances = 0
             THEN /\ batch' \in GetPendingForProcessing(conv, now, limit)
                  /\ idx' = 1
                  /\ outcome' = [i \in 1..Len(batch') |-> "none"]
                  /\ sess' = EmptySession
             ELSE UNCHANGED <<batch, idx, outcome, sess>>
          /\ UNCHANGED <<now, conv, blocked, solutions, vindex, experts, skipped, limit,
                         anyError>>
     ELSE /\ skipped' = TRUE
          /\ UNCHANGED <<now, conv, blocked, solutions, vindex, experts, instances,
                         limit, batch, idx, outcome, sess, anyError>>

(* ---------------- processing one conversation ---------------- *)
\* What the message source and the oracles answer for one conversation.
\* (Fields a branch never reads are fixed, so each case is listed once.)
Inputs ==
  LET base == [fetch_ok |-> TRUE, n_messages |-> MinMessages, analysis_ok |-> TRUE,
               error_summary |-> TRUE, solution |-> TRUE, successful |-> TRUE,
               category |-> NoCategory, resolver |-> NoUser, vector_ok |-> TRUE]
  IN {[base EXCEPT !.fetch_ok = FALSE]}
     \cup {[base EXCEPT !.n_messages = n] : n \in 0..(MinMessages - 1)}
     \cup {[base EXCEPT !.analysis_ok = FALSE]}
     \cup {[base EXCEPT !.error_summary = p[1], !.solution = p[2]] :
              p \in (BOOLEAN \X BOOLEAN) \ {<<TRUE, TRUE>>}}
     \cup {[base EXCEPT !.successful = ok, !.category = cat, !.resolver = u,
                        !.vector_ok = v] :
              ok \in BOOLEAN, cat \in Categories \cup {NoCategory},
              u \in Users \cup {NoUser}, v \in BOOLEAN}

\* The outcomes that leave _process_conversation as an exception.
Raised == {"analysis_raised", "vector_raised"}

\* Solution ids are fresh (uuid4).
NextSolutionId(s) == Cardinality(solutions \cup s.sols) + 1

\* conv_repo.mark_as_processed issued in the session s.
MarkInSession(s, c, solution_id, is_resolved) ==
  [s EXCEPT !.marks[c] =
     [set |-> TRUE, solution_id |-> solution_id, is_resolved |-> is_resolved]]

\* Mutant: mark_as_processed called with its default is_resolved=True.
Mut_MarkInsufficientResolved(s, c) == MarkInSession(s, c, NoSolution, TRUE)

\* The mark of the two insufficiency branches: processed, not resolved.
MarkInsufficient(s, c) == MarkInSession(s, c, NoSolution, FALSE)

\* solution_repo.create: the row is added and flushed in the session s.
CreateSolution(s, id, c, created_by) ==
  [s EXCEPT !.sols = @ \cup {[id |-> id, thread |-> c, created_by |-> created_by]}]

\* The expert row the session s sees.
SessExpert(s, u) == IF u \in s.touched THEN s.experts[u] ELSE experts[u]

\* ExpertRepository.create_or_update with only the user id: the row, created
\* with the column defaults when there is none.
CreateOrUpdateExpert(e) ==
  IF e.exists THEN e ELSE [NoExpert EXCEPT !.exists = TRUE]

\* ExpertRepository.increment_solution_count.
IncrementSolutionCount(e) == [e EXCEPT !.solution_count = @ + 1]

\* ExpertRepository.update_expertise: both columns are assigned.
UpdateExpertise(e, expertise_areas, machine_types) ==
  [e EXCEPT !.expertise_areas = expertise_areas, !.machine_types = machine_types]

\* The default of update_expertise's machine_types parameter: None.
DefaultMachineTypes == {}

\* "Update expert statistics" of _process_conversation on the resolver's
\* row e: create_or_update, increment_solution_count and, for a category
\* the expert does not have yet, update_expertise with the extended areas
\* (machine_types left to its default).
AnalyzerExpertUpdate(e, category) ==
  LET e1 == IncrementSolutionCount(CreateOrUpdateExpert(e))
      current_areas == e1.expertise_areas
  IN IF category # NoCategory /\ category \notin current_areas
     THEN UpdateExpertise(e1, current_areas \cup {category}, DefaultMachineTypes)
     ELSE e1

\* The expert update in the session s, for the resolver if there is one.
UpdateExpertStats(s, resolver, category) ==
  IF resolver = NoUser THEN s
  ELSE [s EXCEPT !.experts[resolver] = AnalyzerExpertUpdate(SessExpert(s, resolver), category),
                 !.touched = @ \cup {resolver}]

\* Mutant: a failed fetch is treated like a thread that is too short.
Mut_FetchFailedMarks(s, c) == MarkInSession(s, c, NoSolution, FALSE)

\* The session after a failed thread fetch (caught inside, returns False).
OnFetchFailed(s, c) == s

\* The session after the analysis oracle raised.
OnAnalysisRaised(s, c) == s

\* _process_conversation for thread c in session s with the answers inp:
\* the session afterwards, the ids added to the vector index, the outcome.
ProcessConversation(s, c, inp) ==
  IF ~inp.fetch_ok
  THEN [sess |-> OnFetchFailed(s, c), added |-> {}, out |-> "fetch_failed"]
  ELSE IF inp.n_messages < MinMessages
  THEN [sess |-> MarkInsufficient(s, c), added |-> {}, out |-> "too_short"]
  ELSE IF ~inp.analysis_ok
  THEN [sess |-> OnAnalysisRaised(s, c), added |-> {}, out |-> "analysis_raised"]
  ELSE IF ~inp.error_summary \/ ~inp.solution
  THEN [sess |-> MarkInsufficient(s, c), added |-> {}, out |-> "no_solution"]
  ELSE LET id == NextSolutionId(s)
           s1 == CreateSolution(s, id, c, inp.resolver)
       IN IF ~inp.vector_ok
          THEN [sess |-> s1, added |-> {}, out |-> "vector_raised"]
          ELSE [sess |-> UpdateExpertStats(MarkInSession(s1, c, id, inp.successful),
                                           inp.resolver, inp.category),
                added |-> {id}, out |-> "saved"]

\* Mutant: no try/except around one conversation, an exception ends the loop.
Mut_AfterItemAbort(i, out, n) == IF out \in Raised THEN n + 1 ELSE i + 1

\* The loop of process_pending_conversations: the index of the next
\* conversation after one whose processing ended with outcome out.
AfterItem(i, out, n) == i + 1

\* One iteration of the loop of process_pending_conversations.
ProcItem ==
  /\ instances >= 1
  /\ idx <= Len(batch)
  /\ \E inp \in Inputs :
       LET res == ProcessConversation(sess, batch[idx], inp)
       IN /\ Cardinality(solutions \cup res.sess.sols) <= MaxSolutions
          /\ sess' = res.sess
          /\ vindex' = vindex \cup res.added
          /\ outcome' = [outcome EXCEPT ![idx] = res.out]
          /\ idx' = AfterItem(idx, res.out, Len(batch))
  /\ UNCHANGED <<now, conv, blocked, solutions, experts, instances, skipped,
                 limit, batch, anyError>>
  /\ UNCHANGED serviceVars

\* The conversation rows after the session's marks are committed and the
\* UPDATEs that waited for them have run.
CommittedConv(s) ==
  [c \in Threads |->
     LET m == IF s.marks[c].set
              THEN MarkAsProcessed(conv[c], s.marks[c].solution_id,
                                   s.marks[c].is_resolved)
              ELSE conv[c]
     IN IF blocked[c].set
        THEN FlushUpdate(conv[c],
                         UpdateConversation(conv[c], blocked[c].message_ts,
                                            blocked[c].is_error_thread),
                         m)
        ELSE m]

\* session.commit() after the loop: everything the session wrote becomes
\* visible at once, and the run ends.
PollCommit ==
  /\ instances >= 1
  /\ idx > Len(batch)
  /\ conv' = CommittedConv(sess)
  /\ solutions' = solutions \cup sess.sols
  /\ experts' = [u \in Users |-> SessExpert(sess, u)]
  /\ blocked' = [c \in Threads |-> NoBlocked]
  /\ instances' = 0
  /\ skipped' = FALSE
  /\ batch' = <<>>
  /\ idx' = 1
  /\ outcome' = <<>>
  /\ sess' = EmptySession
  /\ anyError' = [c \in Threads |->
                   anyError[c] \/ (blocked[c].set /\ blocked[c].is_error_thread)]
  /\ UNCHANGED <<now, vindex, limit>>
  /\ UNCHANGED serviceVars

Next ==
  \/ Advance
  \/ \E c \in Threads, is_error \in BOOLEAN : Track(c, is_error)
  \/ PollTick
  \/ ProcItem
  \/ PollCommit

Spec == Init /\ [][Next]_vars

(* ---------------- the query on a populated table ---------------- *)
\* Rows a table can hold: none, or a conversation whose last message came at
\* ts, unprocessed or marked processed without a solution.
QueryRows ==
  {NoConv}
  \cup {NewConversation(ts, e) : ts \in {0, TickHours, 2 * TickHours}, e \in BOOLEAN}
  \cup {MarkAsProcessed(NewConversation(ts, e), NoSolution, FALSE) :
          ts \in {0, TickHours, 2 * TickHours}, e \in BOOLEAN}

\* get_pending_for_processing takes its limit as a parameter (default 50);
\* here it is called with small limits as well as with the poll's own.
InitQuery ==
  /\ now = Delay + TickHours
  /\ conv \in [Threads -> QueryRows]
  /\ limit \in (1..MaxLimit) \cup {BatchLimit}
  /\ anyError = [c \in Threads |-> conv[c].is_error_thread]
  /\ blocked = [c \in Threads |-> NoBlocked]
  /\ solutions = {}
  /\ vindex = {}
  /\ experts = [u \in Users |-> NoExpert]
  /\ instances = 0
  /\ skipped = FALSE
  /\ batch = <<>>
  /\ idx = 1
  /\ outcome = <<>>
  /\ sess = EmptySession
  /\ ServicesIdle

NextQuery == PollTick \/ ProcItem

SpecQuery == InitQuery /\ [][NextQuery]_vars

(* ---------------- force-processing one thread ---------------- *)
\* The committed database and the index once the session s, which added the
\* ids in added to the index, has been committed.
Persisted(s, added) ==
  [conv |-> CommittedConv(s),
   solutions |-> solutions \cup s.sols,
   experts |-> [u \in Users |-> SessExpert(s, u)],
   vindex |-> vindex \cup added]

\* The committed database and the index as they are.
Untouched ==
  [conv |-> conv, solutions |-> solutions, experts |-> experts, vindex |-> vindex]

\* The metadata the pipeline stores with a Solution in the vector index.
PipelineMetadata(inp) ==
  [category |-> inp.category,
   success_rate |-> IF inp.successful THEN "1.0" ELSE "0.5"]

\* The metadata /cozum-ekle stores with a Solution in the vector index.
CommandMetadata(inp) ==
  [category |-> inp.category, success_rate |-> "absent"]

\* A poll run whose batch is the one conversation c: the loop catches what
\* _process_conversation raises and the run commits.
DeadlineFlow(c, inp) ==
  LET res == ProcessConversation(EmptySession, c, inp)
  IN [db |-> Persisted(res.sess, res.added),
      metadata |-> IF res.added # {} THEN PipelineMetadata(inp) ELSE "none"]

\* process_specific_thread -> process_single_conversation for thread c:
\* nothing without a Conversation row; otherwise _process_conversation and a
\* commit, or a rollback when _process_conversation raised.
ImmediateFlow(c, inp) ==
  IF ~conv[c].exists
  THEN [db |-> Untouched, metadata |-> "none"]
  ELSE LET res == ProcessConversation(EmptySession, c, inp)
       IN IF res.out \in Raised
          THEN [db |-> Untouched, metadata |-> "none"]
          ELSE [db |-> Persisted(res.sess, res.added),
                metadata |-> IF res.added # {} THEN PipelineMetadata(inp) ELSE "none"]

\* handle_cozum_ekle_thread -> analyze_and_save_solution for thread c on
\* behalf of the user added_by.
CozumEkleFlow(c, added_by, inp) ==
  IF \/ ~inp.fetch_ok
     \/ inp.n_messages < MinMessages
     \/ ~inp.analysis_ok
     \/ ~inp.error_summary \/ ~inp.solution
     \/ ~inp.vector_ok
  THEN [db |-> Untouched, metadata |-> "none"]
  ELSE LET id == NextSolutionId(EmptySession)
           s1 == CreateSolution(EmptySession, id, c, added_by)
           s2 == IF conv[c].exists THEN MarkInSession(s1, c, id, inp.successful)
                 ELSE s1
       IN [db |-> Persisted(s2, {id}), metadata |-> CommandMetadata(inp)]

\* The state a force-processing call leaves.
ForceStep(kind, c, added_by, inp, res) ==
  /\ forced = NoForced
  /\ forced' = [kind |-> kind, thread |-> c, added_by |-> added_by, inp |-> inp,
                metadata |-> res.metadata]
  /\ conv' = res.db.conv
  /\ solutions' = res.db.solutions
  /\ experts' = res.db.experts
  /\ vindex' = res.db.vindex
  /\ UNCHANGED <<now, blocked, instances, skipped, limit, batch, idx, outcome,
                 sess, anyError, rows, trk, call, ret>>

\* The immediate trigger runs for thread c.
ImmediateTrigger(c) ==
  \E inp \in Inputs : ForceStep("immediate", c, NoUser, inp, ImmediateFlow(c, inp))

\* A user runs /cozum-ekle on thread c.
CozumEkle(c, added_by) ==
  \E inp \in Inputs :
    ForceStep("cozum_ekle", c, added_by, inp, CozumEkleFlow(c, added_by, inp))

\* The threads are tracked error threads or unknown to the tracker; an
\* expert may already have a solution to their name.
InitForce ==
  /\ now = Delay
  /\ conv \in [Threads -> {NoConv, NewConversation(0, TRUE)}]
  /\ experts \in [Users -> {NoExpert, IncrementSolutionCount(CreateOrUpdateExpert(NoExpert))}]
  /\ anyError = [c \in Threads |-> conv[c].is_error_thread]
  /\ blocked = [c \in Threads |-> NoBlocked]
  /\ solutions = {}
  /\ vindex = {}
  /\ instances = 0
  /\ skipped = FALSE
  /\ limit = BatchLimit
  /\ batch = <<>>
  /\ idx = 1
  /\ outcome = <<>>
  /\ sess = EmptySession
  /\ ServicesIdle

NextForce ==
  \/ \E c \in Threads : ImmediateTrigger(c)
  \/ \E c \in Threads, u \in Users : CozumEkle(c, u)

SpecForce == InitForce /\ [][NextForce]_vars

(* ---------------- concurrent message tracking ---------------- *)
\* The listener threads that run handle_message.
Listeners == {"h1", "h2"}

\* A listener that is not inside track_message.
IdleCall == [pc |-> "idle", thread |-> 0, message_ts |-> 0, is_error_thread |-> FALSE,
             found |-> 0, loaded |-> NoConv]

\* The positions in table of the rows with key c (no constraint of the
\* Conversation table limits them to one).
RowsOf(table, c) == {i \in DOMAIN table : table[i].thread = c}

\* create_or_update up to its SELECT, in listener h for a message of thread
\* c: scalar_one_or_none gives the row, or None, or raises when more than one
\* row has the key (the call then ends with a rollback).
TrackSelect(h, c, is_error) ==
  /\ trk.started < MaxCalls
  /\ trk.call[h].pc = "idle"
  /\ LET hits == RowsOf(rows, c)
     IN trk' = [started |-> trk.started + 1,
                done |-> trk.done,
                call |-> [trk.call EXCEPT ![h] =
                  IF Cardinality(hits) > 1 THEN IdleCall
                  ELSE IF hits = {}
                  THEN [pc |-> "selected", thread |-> c, message_ts |-> now,
                        is_error_thread |-> is_error, found |-> 0, loaded |-> NoConv]
                  ELSE LET i == CHOOSE j \in hits : TRUE
                       IN [pc |-> "selected", thread |-> c, message_ts |-> now,
                           is_error_thread |-> is_error, found |-> i,
                           loaded |-> rows[i].row]]]
  /\ UNCHANGED rows
  /\ UNCHANGED <<pipelineVars, forced, call, ret>>

\* The rest of create_or_update and the commit of track_message in listener
\* h: an INSERT when the SELECT found nothing, else an UPDATE of the columns
\* the call changed on the row it loaded.
TrackWrite(h) ==
  /\ trk.call[h].pc = "selected"
  /\ LET k == trk.call[h]
     IN rows' = IF k.found = 0
                THEN Append(rows, [thread |-> k.thread,
                                   row |-> NewConversation(k.message_ts, k.is_error_thread)])
                ELSE [rows EXCEPT ![k.found].row =
                        FlushUpdate(k.loaded,
                                    UpdateConversation(k.loaded, k.message_ts,
                                                       k.is_error_thread),
                                    @)]
  /\ trk' = [trk EXCEPT !.call[h] = IdleCall,
                        !.done[trk.call[h].thread] = @ + 1]
  /\ UNCHANGED <<pipelineVars, forced, call, ret>>

InitTrack ==
  /\ now = 0
  /\ conv = [c \in Threads |-> NoConv]
  /\ blocked = [c \in Threads |-> NoBlocked]
  /\ solutions = {}
  /\ vindex = {}
  /\ experts = [u \in Users |-> NoExpert]
  /\ instances = 0
  /\ skipped = FALSE
  /\ limit = BatchLimit
  /\ batch = <<>>
  /\ idx = 1
  /\ outcome = <<>>
  /\ sess = EmptySession
  /\ anyError = [c \in Threads |-> FALSE]
  /\ forced = NoForced
  /\ rows = <<>>
  /\ trk = [started |-> 0, done |-> [c \in Threads |-> 0],
            call |-> [h \in Listeners |-> IdleCall]]
  /\ call = [fn |-> "none"]
  /\ ret = [fn |-> "none"]

NextTrack ==
  \/ Advance
  \/ \E h \in Listeners, c \in Threads, is_error \in BOOLEAN : TrackSelect(h, c, is_error)
  \/ \E h \in Listeners : TrackWrite(h)

SpecTrack == InitTrack /\ [][NextTrack]_vars

(* ---------------- retrieval ---------------- *)
\* Similarity 1.0, in tenths.
One == 10

\* Cosine distances the index can report, in tenths.
Distances == {0, 2, 5, 10, 13}

\* min_similarity arguments, in tenths: retrieve's default, the direct
\* question's, the proactive path's.
Thresholds == {0, 5, 7}

\* What collection.query answers for one query embedding: up to n_results
\* documents, nearest first.  Document i of the answer has id i.
IndexAnswers ==
  UNION {{r \in [1..n -> Distances] : \A i, j \in 1..n : i < j => r[i] <= r[j]} :
           n \in 0..MaxResults}

RECURSIVE SearchFrom(_, _, _)

\* Mutant: the threshold test made strict.
Mut_SearchStrictThreshold(results, i, min_similarity) ==
  IF i > Len(results) THEN <<>>
  ELSE (IF One - results[i] > min_similarity
        THEN <<[id |-> i, similarity |-> One - results[i]]>>
        ELSE <<>>)
       \o SearchFrom(results, i + 1, min_similarity)

\* The loop of search_solutions from document i on: distance to similarity,
\* documents under the threshold skipped, the others appended in order.
SearchFrom(results, i, min_similarity) ==
  IF i > Len(results) THEN <<>>
  ELSE LET distance == results[i]
           similarity == One - distance
       IN (IF similarity >= min_similarity
           THEN <<[id |-> i, similarity |-> similarity]>>
           ELSE <<>>)
          \o SearchFrom(results, i + 1, min_similarity)

\* VectorStore.search_solutions on the index's answer results.
SearchSolutions(results, min_similarity) ==
  IF results # <<>> THEN SearchFrom(results, 1, min_similarity) ELSE <<>>

\* SolutionRetriever.retrieve, awaited: the filter is handed to the index,
\* the threshold to search_solutions.
Retrieve(results, min_similarity) == SearchSolutions(results, min_similarity)

\* A caller awaits retrieve.
DoRetrieve ==
  /\ call.fn = "retrieve"
  /\ ret.fn = "none"
  /\ ret' = [fn |-> "retrieve", value |-> Retrieve(call.results, call.min_similarity)]
  /\ UNCHANGED <<pipelineVars, forced, rows, trk, call>>

(* ---------------- the RAG chain and proactive support ---------------- *)
\* Python values the chain handles: a list, None, a coroutine object (what
\* calling a coroutine function without await gives: its body has not run
\* and would give the value of), an exception leaving the function.
PyList(items) == [py |-> "list", items |-> items]
PyNone == [py |-> "None"]
Coroutine(of) == [py |-> "coroutine", of |-> of]
Raise(exc) == [py |-> "raise", exc |-> exc]

\* bool(v): an empty list and None are false, a coroutine object is true.
Truthy(v) ==
  CASE v.py = "list" -> v.items # <<>>
    [] v.py = "coroutine" -> TRUE
    [] OTHER -> FALSE

\* await v.
Await(v) == IF v.py = "coroutine" THEN v.of ELSE Raise("TypeError")

\* settings.similarity_threshold * 0.8, in tenths (0.75 * 0.8).
ContextThreshold == 6

\* SolutionRetriever.retrieve_with_context, awaited.
RetrieveWithContext(results) == Retrieve(results, ContextThreshold)

RECURSIVE SumSimilarity(_, _)
\* sum(d.get("similarity", 0) for d in docs), from document i on.
SumSimilarity(docs, i) ==
  IF i > Len(docs) THEN 0 ELSE docs[i].similarity + SumSimilarity(docs, i + 1)

\* RAGChain.query from "Calculate average confidence" on, with retrieved_docs
\* bound to the Python value docs.  The confidence is the fraction num/den.
QueryOn(docs) ==
  IF Truthy(docs) /\ docs.py # "list"
  THEN Raise("TypeError")
  ELSE [py |-> "RAGResponse",
        confidence |-> IF Truthy(docs)
                       THEN [num |-> SumSimilarity(docs.items, 1), den |-> Len(docs.items)]
                       ELSE [num |-> 0, den |-> 1],
        sources |-> [k \in DOMAIN docs.items |->
                       [id |-> docs.items[k].id, similarity |-> docs.items[k].similarity]],
        has_solutions |-> Len(docs.items) > 0]

\* RAGChain.query: a plain function that calls the coroutine functions
\* retrieve and retrieve_with_context without await.
Query(results, min_similarity, context) ==
  LET retrieved_docs ==
        IF context THEN Coroutine(PyList(RetrieveWithContext(results)))
        ELSE Coroutine(PyList(Retrieve(results, min_similarity)))
  IN QueryOn(retrieved_docs)

\* RAGChain.get_proactive_suggestion: retrieve and
\* generate_proactive_suggestion are called without await, so neither body
\* runs; asked tells whether the generation oracle was invoked.
GetProactiveSuggestion(results, min_similarity) ==
  LET similar_solutions == Coroutine(PyList(Retrieve(results, min_similarity)))
  IN IF ~Truthy(similar_solutions)
     THEN [value |-> PyNone, asked |-> FALSE]
     ELSE LET suggestion == Coroutine([py |-> "str"])
          IN [value |-> IF Truthy(suggestion) THEN suggestion ELSE PyNone,
              asked |-> FALSE]

\* SolutionService.search_solutions: a plain function around RAGChain.query.
ServiceSearchSolutions(results, min_similarity) ==
  LET rag_response == Query(results, min_similarity, FALSE)
  IN IF rag_response.py = "raise" THEN rag_response
     ELSE PyList(rag_response.sources)

\* ProactiveService.suggest_solution as handle_message runs it: what was
\* posted in the thread, whether expert routing was tried, whether an
\* exception reached the handler.  experts_found: find_experts would name
\* someone.
SuggestSolution(results, min_similarity, experts_found) ==
  LET searched == ServiceSearchSolutions(results, min_similarity)
      found == IF searched.py = "raise" THEN searched ELSE Await(searched)
  IN IF found.py = "raise"
     THEN [posted |-> "nothing", routed |-> FALSE, raised |-> TRUE]
     ELSE IF ~Truthy(found)
     THEN [posted |-> IF experts_found THEN "experts" ELSE "nothing",
           routed |-> TRUE, raised |-> FALSE]
     ELSE [posted |-> "suggestion", routed |-> FALSE, raised |-> FALSE]

\* A caller runs RAGChain.query.
DoQuery ==
  /\ call.fn = "query"
  /\ ret.fn = "none"
  /\ ret' = [fn |-> "query",
             value |-> Query(call.results, call.min_similarity, call.context)]
  /\ UNCHANGED <<pipelineVars, forced, rows, trk, call>>

\* A caller runs RAGChain.get_proactive_suggestion.
DoGetProactiveSuggestion ==
  /\ call.fn = "get_proactive_suggestion"
  /\ ret.fn = "none"
  /\ ret' = [fn |-> "get_proactive_suggestion",
             value |-> GetProactiveSuggestion(call.results, call.min_similarity)]
  /\ UNCHANGED <<pipelineVars, forced, rows, trk, call>>

\* handle_message runs ProactiveService.suggest_solution for an error message.
DoSuggestSolution ==
  /\ call.fn = "suggest_solution"
  /\ ret.fn = "none"
  /\ ret' = [fn |-> "suggest_solution",
             value |-> SuggestSolution(call.results, call.min_similarity,
                                       call.experts_found)]
  /\ UNCHANGED <<pipelineVars, forced, rows, trk, call>>

\* The calls examined: the function, the index's answer, the threshold,
\* whether conversation context is passed, whether an expert can be named.
RagCalls ==
  LET base == [fn |-> "retrieve", results |-> <<>>, min_similarity |-> 0,
               context |-> FALSE, experts_found |-> FALSE]
  IN {[base EXCEPT !.fn = f, !.results = r, !.min_similarity = t] :
        f \in {"retrieve", "get_proactive_suggestion"},
        r \in IndexAnswers, t \in Thresholds}
     \cup {[base EXCEPT !.fn = "query", !.results = r, !.min_similarity = t,
                        !.context = c] :
             r \in IndexAnswers, t \in Thresholds, c \in BOOLEAN}
     \cup {[base EXCEPT !.fn = "suggest_solution", !.results = r,
                        !.min_similarity = t, !.experts_found = e] :
             r \in IndexAnswers, t \in Thresholds, e \in BOOLEAN}

InitRag ==
  /\ now = 0
  /\ conv = [c \in Threads |-> NoConv]
  /\ blocked = [c \in Threads |-> NoBlocked]
  /\ solutions = {}
  /\ vindex = {}
  /\ experts = [u \in Users |-> NoExpert]
  /\ instances = 0
  /\ skipped = FALSE
  /\ limit = BatchLimit
  /\ batch = <<>>
  /\ idx = 1
  /\ outcome = <<>>
  /\ sess = EmptySession
  /\ anyError = [c \in Threads |-> FALSE]
  /\ forced = NoForced
  /\ rows = <<>>
  /\ trk = <<>>
  /\ call \in RagCalls
  /\ ret = [fn |-> "none"]

NextRag ==
  \/ DoRetrieve
  \/ DoQuery
  \/ DoGetProactiveSuggestion
  \/ DoSuggestSolution

SpecRag == InitRag /\ [][NextRag]_vars

(* ---------------- expert profiles ---------------- *)
\* The people with (or about to get) an Expert row.
Roster == {"E1", "E2", "E3", "E4"}
MachineTypes == {"A1100"}
NoMachineType == "none"

\* ExpertService.update_expert_from_solution on the row e.  expert is the
\* loaded object: current_areas / current_machines are its lists, extended
\* in place, and the UPDATE statements are synchronized onto it.
ExpertFromSolution(e, category, machine_type) ==
  LET expert == CreateOrUpdateExpert(e)
      e1 == IF category # NoCategory /\ category \notin expert.expertise_areas
            THEN UpdateExpertise(expert, expert.expertise_areas \cup {category},
                                 expert.machine_types)
            ELSE expert
      e2 == IF machine_type # NoMachineType /\ machine_type \notin e1.machine_types
            THEN UpdateExpertise(e1, e1.expertise_areas,
                                 e1.machine_types \cup {machine_type})
            ELSE e1
  IN IncrementSolutionCount(e2)

\* The solutions credited so far.
CreditedSolutions ==
  SumOver([u \in Roster |-> experts[u].solution_count], Roster)

\* A pipeline run that saved a Solution resolved by u commits its expert update.
AnalyzerUpdatesExpert(u, category) ==
  /\ CreditedSolutions < MaxExpertUpdates
  /\ experts' = [experts EXCEPT ![u] = AnalyzerExpertUpdate(@, category)]
  /\ UNCHANGED <<now, conv, blocked, solutions, vindex, instances, skipped, limit,
                 batch, idx, outcome, sess, anyError>>
  /\ UNCHANGED serviceVars

\* update_expert_from_solution is called for u.
UpdateExpertFromSolution(u, category, machine_type) ==
  /\ CreditedSolutions < MaxExpertUpdates
  /\ experts' = [experts EXCEPT ![u] = ExpertFromSolution(@, category, machine_type)]
  /\ UNCHANGED <<now, conv, blocked, solutions, vindex, instances, skipped, limit,
                 batch, idx, outcome, sess, anyError>>
  /\ UNCHANGED serviceVars

InitExpert ==
  /\ now = 0
  /\ conv = [c \in Threads |-> NoConv]
  /\ blocked = [c \in Threads |-> NoBlocked]
  /\ solutions = {}
  /\ vindex = {}
  /\ experts = [u \in Roster |-> NoExpert]
  /\ instances = 0
  /\ skipped = FALSE
  /\ limit = BatchLimit
  /\ batch = <<>>
  /\ idx = 1
  /\ outcome = <<>>
  /\ sess = EmptySession
  /\ anyError = [c \in Threads |-> FALSE]
  /\ ServicesIdle

NextExpert ==
  \/ \E u \in Roster, category \in Categories \cup {NoCategory} :
       AnalyzerUpdatesExpert(u, category)
  \/ \E u \in Roster, category \in Categories \cup {NoCategory},
        machine_type \in MachineTypes \cup {NoMachineType} :
       UpdateExpertFromSolution(u, category, machine_type)

SpecExpert == InitExpert /\ [][NextExpert]_vars

(* ---------------- expert routing ---------------- *)
Range(s) == {s[i] : i \in DOMAIN s}

\* Mutant: ORDER BY solution_count ascending.
Mut_RankedAscending(table, s) ==
  \A i, j \in DOMAIN s : i < j => table[s[i]].solution_count <= table[s[j]].solution_count

\* ORDER BY solution_count DESC: experts with equal counts come in any order.
RankedBy(table, s) ==
  \A i, j \in DOMAIN s : i < j => table[s[i]].solution_count >= table[s[j]].solution_count

\* The lists a query over the matching rows can return: ranked, cut to lim.
SelectExperts(table, matching, lim) ==
  LET n == Cardinality(matching)
      all == {s \in [1..n -> matching] :
                /\ \A i, j \in 1..n : i # j => s[i] # s[j]
                /\ RankedBy(table, s)}
  IN {SubSeq(s, 1, Min(lim, n)) : s \in all}

\* The condition Expert.is_available == True on an existing row.
AvailableExpert(e) == e.exists /\ e.is_available

\* ExpertRepository.find_by_machine_type.
FindByMachineType(table, machine_type, lim) ==
  SelectExperts(table,
                {u \in DOMAIN table : /\ machine_type \in table[u].machine_types
                                      /\ AvailableExpert(table[u])},
                lim)

\* ExpertRepository.find_by_expertise.
FindByExpertise(table, expertise_area, lim) ==
  SelectExperts(table,
                {u \in DOMAIN table : /\ expertise_area \in table[u].expertise_areas
                                      /\ AvailableExpert(table[u])},
                lim)

\* ExpertRepository.get_top_experts.
GetTopExperts(table, lim) ==
  SelectExperts(table, {u \in DOMAIN table : AvailableExpert(table[u])}, lim)

\* Mutant: the found experts are appended without looking at existing_ids.
Mut_AppendAll(found, more) == found \o more

\* "Add experts not already in list": existing_ids is taken once, before the loop.
AppendNew(found, more) ==
  LET existing_ids == Range(found)
  IN found \o SelectSeq(more, LAMBDA e : e \notin existing_ids)

\* ExpertService.find_experts from the opening of the session on, with
\* machine_type and category as given or detected: the experts returned,
\* and how many of them each stage contributed.
DoFindExperts ==
  /\ call.fn = "find_experts"
  /\ ret.fn = "none"
  /\ \E m \in (IF call.machine_type # NoMachineType
               THEN FindByMachineType(experts, call.machine_type, call.limit)
               ELSE {<<>>}) :
       \E c \in (IF call.category # NoCategory /\ Len(m) < call.limit
                 THEN FindByExpertise(experts, call.category, call.limit - Len(m))
                 ELSE {<<>>}) :
         LET found == AppendNew(m, c)
         IN \E t \in (IF Len(found) < call.limit
                      THEN GetTopExperts(experts, call.limit - Len(found))
                      ELSE {<<>>}) :
              LET all == AppendNew(found, t)
              IN ret' = [fn |-> "find_experts",
                         experts |-> SubSeq(all, 1, Min(call.limit, Len(all))),
                         by_machine |-> Len(m),
                         by_category |-> Len(found) - Len(m)]
  /\ UNCHANGED <<pipelineVars, forced, rows, trk, call>>

\* solution_count values of the experts on the roster.
SolutionCounts == {1, 2}

\* The Expert rows of a roster member: none, or a row with any availability,
\* machine types, expertise areas and one of the solution counts.
RouteRows ==
  {NoExpert}
  \cup {[exists |-> TRUE, solution_count |-> n, expertise_areas |-> a,
         machine_types |-> mt, is_available |-> av] :
          n \in SolutionCounts, a \in SUBSET Categories, mt \in SUBSET MachineTypes,
          av \in BOOLEAN}

\* The roster in the order its members are named.
RosterOrder == <<"E1", "E2", "E3", "E4">>

\* A number per row, to name the roster members in a fixed order of their rows.
RowRank(e) ==
  IF ~e.exists THEN 0
  ELSE 1 + 8 * (e.solution_count - 1) + 4 * Cardinality(e.machine_types)
         + 2 * Cardinality(e.expertise_areas) + (IF e.is_available THEN 1 ELSE 0)

\* Any Expert table over the roster (members named in the order of their
\* rows: the queries do not look at names), any limit, machine type and
\* category present or not.
InitRoute ==
  /\ now = 0
  /\ conv = [c \in Threads |-> NoConv]
  /\ blocked = [c \in Threads |-> NoBlocked]
  /\ solutions = {}
  /\ vindex = {}
  /\ experts \in {t \in [Roster -> RouteRows] :
                    \A i, j \in DOMAIN RosterOrder :
                      i < j => RowRank(t[RosterOrder[i]]) >= RowRank(t[RosterOrder[j]])}
  /\ instances = 0
  /\ skipped = FALSE
  /\ limit = BatchLimit
  /\ batch = <<>>
  /\ idx = 1
  /\ outcome = <<>>
  /\ sess = EmptySession
  /\ anyError = [c \in Threads |-> FALSE]
  /\ forced = NoForced
  /\ rows = <<>>
  /\ trk = <<>>
  /\ call \in {[fn |-> "find_experts", machine_type |-> mt, category |-> cat,
                limit |-> l] :
                 mt \in MachineTypes \cup {NoMachineType},
                 cat \in Categories \cup {NoCategory}, l \in 1..RouteLimit}
  /\ ret = [fn |-> "none"]

NextRoute == DoFindExperts

SpecRoute == InitRoute /\ [][NextRoute]_vars

(* ---------------- the extractor's heuristics ---------------- *)
\* CATEGORY_KEYWORDS in the order of its declaration.  A keyword is the
\* sequence of its letters (s-cedilla and dotless-i spelled out, also in
\* the category names yazilim and sikisma).
CategoryKeywords ==
  <<
     [category |-> "konveyör",
      keywords |-> <<<<"k", "o", "n", "v", "e", "y", "ö", "r">>,
                     <<"c", "o", "n", "v", "e", "y", "o", "r">>,
                     <<"b", "a", "n", "t">>,
                     <<"t", "a", "s-cedilla", "dotless-i", "m", "a">>,
                     <<"b", "e", "s", "l", "e", "m", "e">>>>],
     [category |-> "sensör",
      keywords |-> <<<<"s", "e", "n", "s", "ö", "r">>,
                     <<"s", "e", "n", "s", "o", "r">>,
                     <<"a", "l", "g", "dotless-i", "l", "a", "y", "dotless-i", "c", "dotless-i">>,
                     <<"f", "o", "t", "o", "s", "e", "l">>>>],
     [category |-> "motor",
      keywords |-> <<<<"m", "o", "t", "o", "r">>,
                     <<"s", "e", "r", "v", "o">>,
                     <<"s", "ü", "r", "ü", "c", "ü">>,
                     <<"d", "r", "i", "v", "e">>,
                     <<"i", "n", "v", "e", "r", "t", "e", "r">>>>],
     [category |-> "hidrolik",
      keywords |-> <<<<"h", "i", "d", "r", "o", "l", "i", "k">>,
                     <<"p", "i", "s", "t", "o", "n">>,
                     <<"s", "i", "l", "i", "n", "d", "i", "r">>,
                     <<"p", "o", "m", "p", "a">>,
                     <<"b", "a", "s", "dotless-i", "n", "ç">>>>],
     [category |-> "pnömatik",
      keywords |-> <<<<"p", "n", "ö", "m", "a", "t", "i", "k">>,
                     <<"h", "a", "v", "a">>,
                     <<"k", "o", "m", "p", "r", "e", "s", "ö", "r">>,
                     <<"v", "a", "l", "f">>,
                     <<"v", "a", "l", "v", "e">>>>],
     [category |-> "elektrik",
      keywords |-> <<<<"e", "l", "e", "k", "t", "r", "i", "k">>,
                     <<"k", "a", "b", "l", "o">>,
                     <<"s", "i", "g", "o", "r", "t", "a">>,
                     <<"f", "a", "z">>,
                     <<"t", "o", "p", "r", "a", "k">>>>],
     [category |-> "yazilim",
      keywords |-> <<<<"y", "a", "z", "dotless-i", "l", "dotless-i", "m">>,
                     <<"p", "l", "c">>,
                     <<"h", "m", "i">>,
                     <<"p", "r", "o", "g", "r", "a", "m">>,
                     <<"k", "o", "d">>,
                     <<"s", "o", "f", "t", "w", "a", "r", "e">>>>],
     [category |-> "mekanik",
      keywords |-> <<<<"m", "e", "k", "a", "n", "i", "k">>,
                     <<"r", "u", "l", "m", "a", "n">>,
                     <<"k", "a", "y", "dotless-i", "s-cedilla">>,
                     <<"d", "i", "s-cedilla", "l", "i">>,
                     <<"m", "i", "l">>>>],
     [category |-> "sikisma",
      keywords |-> <<<<"s", "dotless-i", "k", "dotless-i", "s-cedilla", "m", "a">>,
                     <<"t", "dotless-i", "k", "a", "n", "m", "a">>,
                     <<"j", "a", "m">>,
                     <<"b", "l", "o", "k", "a", "j">>>>],
     [category |-> "kalibrasyon",
      keywords |-> <<<<"k", "a", "l", "i", "b", "r", "a", "s", "y", "o", "n">>,
                     <<"a", "y", "a", "r">>,
                     <<"c", "a", "l", "i", "b", "r", "a", "t", "i", "o", "n">>,
                     <<"s", "e", "t", "u", "p">>>>]
  >>

\* Words a message text is made of here: keywords of two categories in
\* lower and upper case, a word that contains a keyword, a word without one.
Words ==
  {<<"m", "o", "t", "o", "r">>,
   <<"M", "o", "t", "o", "r">>,
   <<"s", "e", "r", "v", "o">>,
   <<"s", "ü", "r", "ü", "c", "ü">>,
   <<"s", "e", "n", "s", "ö", "r">>,
   <<"S", "E", "N", "S", "O", "R">>,
   <<"f", "o", "t", "o", "s", "e", "l">>,
   <<"h", "a", "t", "a">>,
   <<"m", "o", "t", "o", "r", "l", "u">>}

\* str.lower() on the capital letters that occur in Words.
LowerOf ==
  [E |-> "e", M |-> "m", N |-> "n", O |-> "o", R |-> "r", S |-> "s"]

\* text.lower(), letter by letter.
Lower(text) ==
  [i \in DOMAIN text |-> IF text[i] \in DOMAIN LowerOf THEN LowerOf[text[i]] ELSE text[i]]

\* kw in text: kw occurs as a contiguous part of text.
IsSubstring(kw, text) ==
  \E i \in 1..(Len(text) - Len(kw) + 1) : SubSeq(text, i, i + Len(kw) - 1) = kw

RECURSIVE Join(_)
\* " ".join(texts) for the message texts of a thread.
Join(texts) ==
  IF texts = <<>> THEN <<>>
  ELSE IF Len(texts) = 1 THEN texts[1]
  ELSE texts[1] \o <<" ">> \o Join(Tail(texts))

\* sum(1 for kw in keywords if kw in text_lower)
KeywordScore(keywords, text_lower) ==
  Cardinality({k \in DOMAIN keywords : IsSubstring(keywords[k], text_lower)})

\* Mutant: of two categories with the same score the later one is kept.
Mut_LaterMaxWins(best, score, k, s) == IF s >= score THEN k ELSE best

\* max(category_scores, key=category_scores.get), one entry at a time: the
\* entry k with score s replaces the best so far only with a higher score.
KeepMax(best, score, k, s) == IF s > score THEN k ELSE best

RECURSIVE ScanCategories(_, _, _, _)
\* The loop over CATEGORY_KEYWORDS from entry k on and the max over the
\* categories with a positive score; best = 0: no category scored yet.
ScanCategories(text_lower, k, best, score) ==
  IF k > Len(CategoryKeywords) THEN best
  ELSE LET s == KeywordScore(CategoryKeywords[k].keywords, text_lower)
           b == IF s > 0 THEN KeepMax(best, score, k, s) ELSE best
       IN ScanCategories(text_lower, k + 1, b, IF b = k THEN s ELSE score)

\* SolutionExtractor._detect_category.
DetectCategory(text) ==
  LET text_lower == Lower(text)
      best == ScanCategories(text_lower, 1, 0, 0)
  IN IF best = 0 THEN NoCategory ELSE CategoryKeywords[best].category

\* The category of extract_solution_data: the analysis' own, or the detected one.
ExtractCategory(analysis_category, messages) ==
  IF analysis_category # NoCategory THEN analysis_category
  ELSE DetectCategory(Join(messages))

\* extract_solution_data determines the category of a thread.
DoExtractCategory ==
  /\ call.fn = "category"
  /\ ret.fn = "none"
  /\ ret' = [fn |-> "category",
             value |-> ExtractCategory(call.analysis_category, call.messages)]
  /\ UNCHANGED <<pipelineVars, forced, rows, trk, call>>

\* The authors of thread messages.
ThreadAuthors == {"U1", "U2"}

\* Mutant: authors are counted over the whole thread.
Mut_CountFromStart(n) == n - n

\* mid_point = len(messages) // 2
MidPoint(n) == n \div 2

\* messages[mid_point:]
LaterMessages(messages) ==
  SubSeq(messages, MidPoint(Len(messages)) + 1, Len(messages))

RECURSIVE AuthorsInOrder(_, _)
\* The keys of author_counts in insertion order: the authors of the
\* messages from i on, each at its first message; a message without a user
\* adds none.
AuthorsInOrder(later, i) ==
  IF i > Len(later) THEN <<>>
  ELSE LET user == later[i]
           rest == AuthorsInOrder(later, i + 1)
       IN IF user = NoUser THEN rest
          ELSE <<user>> \o SelectSeq(rest, LAMBDA u : u # user)

\* author_counts[user]
AuthorCount(later, user) == Cardinality({i \in DOMAIN later : later[i] = user})

RECURSIVE MaxAuthor(_, _, _, _, _)
\* max(author_counts, key=author_counts.get) over the keys from k on.
MaxAuthor(later, keys, k, best, score) ==
  IF k > Len(keys) THEN best
  ELSE LET s == AuthorCount(later, keys[k])
           b == KeepMax(best, score, k, s)
       IN MaxAuthor(later, keys, k + 1, b, IF b = k THEN s ELSE score)

\* SolutionExtractor._find_resolver on the authors of the messages.
FindResolver(messages) ==
  IF messages = <<>> THEN NoUser
  ELSE LET later == LaterMessages(messages)
           keys == AuthorsInOrder(later, 1)
       IN IF keys = <<>> THEN NoUser
          ELSE keys[MaxAuthor(later, keys, 1, 0, 0)]

\* extract_solution_data determines the resolver of a thread.
DoFindResolver ==
  /\ call.fn = "resolver"
  /\ ret.fn = "none"
  /\ ret' = [fn |-> "resolver", value |-> FindResolver(call.authors)]
  /\ UNCHANGED <<pipelineVars, forced, rows, trk, call>>

\* The threads examined: for the category up to MaxWords one-word messages,
\* with or without a category in the analysis; for the resolver up to
\* MaxThreadLen messages, each by one of the authors or without a user.
ExtractCalls ==
  {[fn |-> "category", analysis_category |-> a, messages |-> t, authors |-> <<>>] :
     a \in {NoCategory, "elektrik"},
     t \in UNION {[1..n -> Words] : n \in 0..MaxWords}}
  \cup {[fn |-> "resolver", analysis_category |-> NoCategory, messages |-> <<>>,
         authors |-> t] :
          t \in UNION {[1..n -> ThreadAuthors \cup {NoUser}] : n \in 0..MaxThreadLen}}

InitExtract ==
  /\ now = 0
  /\ conv = [c \in Threads |-> NoConv]
  /\ blocked = [c \in Threads |-> NoBlocked]
  /\ solutions = {}
  /\ vindex = {}
  /\ experts = [u \in Users |-> NoExpert]
  /\ instances = 0
  /\ skipped = FALSE
  /\ limit = BatchLimit
  /\ batch = <<>>
  /\ idx = 1
  /\ outcome = <<>>
  /\ sess = EmptySession
  /\ anyError = [c \in Threads |-> FALSE]
  /\ forced = NoForced
  /\ rows = <<>>
  /\ trk = <<>>
  /\ call \in ExtractCalls
  /\ ret = [fn |-> "none"]

NextExtract ==
  \/ DoExtractCategory
  \/ DoFindResolver

SpecExtract == InitExtract /\ [][NextExtract]_vars

(* ---------------- the extractor's step lists ---------------- *)
\* The characters of a solution text: a digit, a separator, a blank, a line
\* break, a letter, a dash.
Chars == {"1", ".", " ", "nl", "a", "-"}

\* \d, [.\)], \s and [-•*] of the two patterns, str.strip()'s whitespace.
Digits == {"0", "1", "2", "3", "4", "5", "6", "7", "8", "9"}
Separators == {".", ")"}
Whitespace == {" ", "nl", "tab"}
Bullets == {"-", "bullet", "*"}

RECURSIVE RunLength(_, _, _)
\* The length of the longest run of characters of class from position p on.
RunLength(text, p, class) ==
  IF p > Len(text) \/ text[p] \notin class THEN 0
  ELSE 1 + RunLength(text, p + 1, class)

\* $ without re.MULTILINE: the end of the text, or just before a line break
\* that ends the text.
AtEnd(text, q) ==
  \/ q = Len(text) + 1
  \/ q = Len(text) /\ text[q] = "nl"

\* The lookahead \d+[.\)] of the numbered pattern at position q.
NumberedAhead(text, q) ==
  LET d == RunLength(text, q, Digits)
  IN d >= 1 /\ q + d <= Len(text) /\ text[q + d] \in Separators

\* The lookahead [-•*] of the bullet pattern at position q.
BulletAhead(text, q) == q <= Len(text) /\ text[q] \in Bullets

\* The lookahead of the pattern of the given kind.
Ahead(kind, text, q) ==
  IF kind = "numbered" THEN NumberedAhead(text, q) ELSE BulletAhead(text, q)

RECURSIVE LazyEnd(_, _, _)
\* (.+?)(?=...|$) with re.DOTALL: the group holds at least one character
\* and ends at the first position e after which the lookahead or $ holds.
LazyEnd(kind, text, e) ==
  IF Ahead(kind, text, e + 1) \/ AtEnd(text, e + 1) THEN e
  ELSE LazyEnd(kind, text, e + 1)

\* The regular expression of the given kind tried at position p: the head
\* ((\d+)[.\)] or [-•*]), \s* taking all the whitespace that follows unless
\* that leaves nothing for the group (then it gives one character back),
\* and the group from from to to.
MatchAt(kind, text, p) ==
  LET d == RunLength(text, p, Digits)
      h == IF kind = "numbered" THEN d + 1 ELSE 1
      head == IF kind = "numbered" THEN NumberedAhead(text, p) ELSE BulletAhead(text, p)
      w == RunLength(text, p + h, Whitespace)
      s == p + h + w
      from == IF s <= Len(text) THEN s ELSE s - 1
  IN IF head /\ (s <= Len(text) \/ w >= 1)
     THEN [ok |-> TRUE, from |-> from, to |-> LazyEnd(kind, text, from)]
     ELSE [ok |-> FALSE, from |-> 0, to |-> 0]

RECURSIVE FindAll(_, _, _)
\* re.findall from position p on: the groups of the matches, left to right,
\* each search starting where the last match ended.
FindAll(kind, text, p) ==
  IF p > Len(text) THEN <<>>
  ELSE LET m == MatchAt(kind, text, p)
       IN IF m.ok
          THEN <<SubSeq(text, m.from, m.to)>> \o FindAll(kind, text, m.to + 1)
          ELSE FindAll(kind, text, p + 1)

RECURSIVE LStrip(_)
LStrip(s) == IF s # <<>> /\ Head(s) \in Whitespace THEN LStrip(Tail(s)) ELSE s

RECURSIVE RStrip(_)
RStrip(s) ==
  IF s # <<>> /\ s[Len(s)] \in Whitespace THEN RStrip(SubSeq(s, 1, Len(s) - 1)) ELSE s

\* str.strip()
Strip(s) == RStrip(LStrip(s))

\* Mutant: one item is enough for a step list.
Mut_OneItemSuffices(matches) == Len(matches) >= 1

\* matches and len(matches) >= 2
EnoughItems(matches) == matches # <<>> /\ Len(matches) >= 2

\* The dict _extract_steps returns for the matches.
StepsOf(matches) ==
  [py |-> "dict", steps |-> [i \in DOMAIN matches |-> Strip(matches[i])]]

\* SolutionExtractor._extract_steps.
ExtractSteps(solution_text) ==
  IF solution_text = <<>> THEN PyNone
  ELSE LET numbered == FindAll("numbered", solution_text, 1)
       IN IF EnoughItems(numbered) THEN StepsOf(numbered)
          ELSE LET bullets == FindAll("bullet", solution_text, 1)
               IN IF EnoughItems(bullets) THEN StepsOf(bullets)
                  ELSE PyNone

\* extract_solution_data extracts the steps of the analysis' solution text.
DoExtractSteps ==
  /\ call.fn = "steps"
  /\ ret.fn = "none"
  /\ ret' = [fn |-> "steps", value |-> ExtractSteps(call.solution_text)]
  /\ UNCHANGED <<pipelineVars, forced, rows, trk, call>>

\* Any solution text of up to MaxChars characters.
InitSteps ==
  /\ now = 0
  /\ conv = [c \in Threads |-> NoConv]
  /\ blocked = [c \in Threads |-> NoBlocked]
  /\ solutions = {}
  /\ vindex = {}
  /\ experts = [u \in Users |-> NoExpert]
  /\ instances = 0
  /\ skipped = FALSE
  /\ limit = BatchLimit
  /\ batch = <<>>
  /\ idx = 1
  /\ outcome = <<>>
  /\ sess = EmptySession
  /\ anyError = [c \in Threads |-> FALSE]
  /\ forced = NoForced
  /\ rows = <<>>
  /\ trk = <<>>
  /\ call \in {[fn |-> "steps", solution_text |-> t] :
                 t \in UNION {[1..n -> Chars] : n \in 0..MaxChars}}
  /\ ret = [fn |-> "none"]

NextSteps == DoExtractSteps

SpecSteps == InitSteps /\ [][NextSteps]_vars

(* ---------------- a query while an oracle is down ---------------- *)
\* What is out of order while a query runs: nothing, the embedding oracle,
\* the vector index, the generation oracle.
Failures == {"none", "embedding", "index", "generation"}

\* The body of SolutionRetriever.retrieve: embed_text and collection.query
\* raise when their service is down.
RetrieveBody(fails, results, min_similarity) ==
  IF fails \in {"embedding", "index"} THEN Raise("OracleError")
  ELSE PyList(Retrieve(results, min_similarity))

\* The body of ResponseGenerator.generate_solution_response.
GenerateBody(fails) ==
  IF fails = "generation" THEN Raise("OracleError") ELSE [py |-> "str"]

\* RAGChain.query as its callers here run it (no conversation context):
\* retrieve and generate_solution_response are called without await, so
\* their bodies stay inside coroutine objects.
QueryWhen(fails, results, min_similarity) ==
  LET retrieved_docs == Coroutine(RetrieveBody(fails, results, min_similarity))
      answer == Coroutine(GenerateBody(fails))
      response == QueryOn(retrieved_docs)
  IN IF response.py = "raise" THEN response
     ELSE [py |-> "RAGResponse", answer |-> answer, confidence |-> response.confidence,
           sources |-> response.sources, has_solutions |-> response.has_solutions]

\* SolutionService.search_solutions.
SearchWhen(fails, results, min_similarity) ==
  LET rag_response == QueryWhen(fails, results, min_similarity)
  IN IF rag_response.py = "raise" THEN rag_response
     ELSE PyList(rag_response.sources)

\* Mutant: the handler has no except clause.
Mut_SearchNotCaught(e) == [respond |-> "nothing", raised |-> TRUE]

\* The except clause of handle_search_command: logged, an apology sent.
SearchCaught(e) == [respond |-> "error_notice", raised |-> FALSE]

\* handle_search_command (/cozum-ara) from "Search for solutions" on.
HandleSearchCommand(fails, results, min_similarity) ==
  LET found == SearchWhen(fails, results, min_similarity)
  IN IF found.py = "raise" THEN SearchCaught(found)
     ELSE IF ~Truthy(found) THEN [respond |-> "not_found", raised |-> FALSE]
     ELSE [respond |-> "results", raised |-> FALSE]

\* ProactiveService.respond_to_mention: the value of rag_chain.query(...)
\* is awaited.
RespondToMention(fails, results, min_similarity) ==
  LET called == QueryWhen(fails, results, min_similarity)
      rag_response == IF called.py = "raise" THEN called ELSE Await(called)
  IN IF rag_response.py = "raise" THEN rag_response
     ELSE [py |-> "bool",
           posted |-> IF rag_response.has_solutions THEN "answer" ELSE "experts"]

\* handle_app_mention from "Search for solutions" on: the except clause
\* logs and says an apology in the thread.
HandleAppMention(fails, results, min_similarity) ==
  LET done == RespondToMention(fails, results, min_similarity)
  IN IF done.py = "raise" THEN [respond |-> "error_notice", raised |-> FALSE]
     ELSE [respond |-> done.posted, raised |-> FALSE]

\* ProactiveService.suggest_solution while an oracle may be down.
SuggestWhen(fails, results, min_similarity, experts_found) ==
  LET searched == SearchWhen(fails, results, min_similarity)
      found == IF searched.py = "raise" THEN searched ELSE Await(searched)
  IN IF found.py = "raise" THEN found
     ELSE [py |-> "bool",
           posted |-> IF Truthy(found) THEN "suggestion"
                      ELSE IF experts_found THEN "experts" ELSE "nothing"]

\* The proactive part of handle_message: the except clause only logs.
HandleErrorMessage(fails, results, min_similarity, experts_found) ==
  LET done == SuggestWhen(fails, results, min_similarity, experts_found)
  IN IF done.py = "raise" THEN [respond |-> "nothing", raised |-> FALSE]
     ELSE [respond |-> done.posted, raised |-> FALSE]

\* A user runs /cozum-ara.
DoSearchCommand ==
  /\ call.fn = "search_command"
  /\ ret.fn = "none"
  /\ ret' = [fn |-> "search_command",
             value |-> HandleSearchCommand(call.fails, call.results, call.min_similarity)]
  /\ UNCHANGED <<pipelineVars, forced, rows, trk, call>>

\* A user mentions the bot with a question.
DoAppMention ==
  /\ call.fn = "app_mention"
  /\ ret.fn = "none"
  /\ ret' = [fn |-> "app_mention",
             value |-> HandleAppMention(call.fails, call.results, call.min_similarity)]
  /\ UNCHANGED <<pipelineVars, forced, rows, trk, call>>

\* An error message arrives and proactive support is enabled.
DoErrorMessage ==
  /\ call.fn = "error_message"
  /\ ret.fn = "none"
  /\ ret' = [fn |-> "error_message",
             value |-> HandleErrorMessage(call.fails, call.results, call.min_similarity,
                                          call.experts_found)]
  /\ UNCHANGED <<pipelineVars, forced, rows, trk, call>>

\* The handler calls examined: what is down, what the index would answer,
\* the threshold, whether an expert can be named.
HandlerCalls ==
  {[fn |-> f, fails |-> x, results |-> r, min_similarity |-> t, experts_found |-> e] :
     f \in {"search_command", "app_mention", "error_message"}, x \in Failures,
     r \in IndexAnswers, t \in Thresholds, e \in BOOLEAN}

\* The stored state is one a pipeline run left: a processed thread with its
\* Solution, indexed.
InitHandlers ==
  /\ now = Delay
  /\ conv = [c \in Threads |->
               IF c = 1 THEN MarkAsProcessed(NewConversation(0, TRUE), 1, TRUE) ELSE NoConv]
  /\ blocked = [c \in Threads |-> NoBlocked]
  /\ solutions = {[id |-> 1, thread |-> 1, created_by |-> NoUser]}
  /\ vindex = {1}
  /\ experts = [u \in Users |-> NoExpert]
  /\ instances = 0
  /\ skipped = FALSE
  /\ limit = BatchLimit
  /\ batch = <<>>
  /\ idx = 1
  /\ outcome = <<>>
  /\ sess = EmptySession
  /\ anyError = [c \in Threads |-> conv[c].is_error_thread]
  /\ forced = NoForced
  /\ rows = <<>>
  /\ trk = <<>>
  /\ call \in HandlerCalls
  /\ ret = [fn |-> "none"]

NextHandlers ==
  \/ DoSearchCommand
  \/ DoAppMention
  \/ DoErrorMessage

SpecHandlers == InitHandlers /\ [][NextHandlers]_vars

(* ---------------- feedback on a Solution ---------------- *)
\* The Solution table by id (ids are numbered); the number that stands for
\* an id text that is no UUID.
SolutionKeys == 1..NSolutionRows
MalformedId == 0

NoSolutionRow ==
  [exists |-> FALSE, created_by |-> NoUser, error_category |-> NoCategory,
   verified |-> FALSE, success_count |-> 0, failure_count |-> 0]

\* SolutionRepository.create: the row with the column defaults of the model.
NewSolution(created_by, error_category) ==
  [exists |-> TRUE, created_by |-> created_by, error_category |-> error_category,
   verified |-> FALSE, success_count |-> 0, failure_count |-> 0]

\* Mutant: every feedback is counted as a success.
Mut_CountsAsSuccess(table, solution_id, was_successful) ==
  [id \in DOMAIN table |->
     IF id = solution_id /\ table[id].exists
     THEN [table[id] EXCEPT !.success_count = @ + 1]
     ELSE table[id]]

\* SolutionRepository.update_success_count: one UPDATE statement that adds
\* one to a counter of the rows with the id.
UpdateSuccessCount(table, solution_id, was_successful) ==
  [id \in DOMAIN table |->
     IF id = solution_id /\ table[id].exists
     THEN IF was_successful
          THEN [table[id] EXCEPT !.success_count = @ + 1]
          ELSE [table[id] EXCEPT !.failure_count = @ + 1]
     ELSE table[id]]

\* SolutionService.record_solution_feedback: the table afterwards and the
\* value returned; uuid.UUID raises on a malformed id, which is caught.
RecordSolutionFeedback(table, solution_id, was_helpful) ==
  IF solution_id = MalformedId
  THEN [table |-> table, value |-> FALSE]
  ELSE [table |-> UpdateSuccessCount(table, solution_id, was_helpful), value |-> TRUE]

\* A Solution is created and committed.
DoCreateSolution(id, created_by, error_category) ==
  /\ ~solutions[id].exists
  /\ solutions' = [solutions EXCEPT ![id] = NewSolution(created_by, error_category)]
  /\ ret' = [fn |-> "create", seq |-> ret.seq, solution_id |-> id,
             was_helpful |-> FALSE, value |-> TRUE]
  /\ UNCHANGED <<now, conv, blocked, vindex, experts, instances, skipped, limit,
                 batch, idx, outcome, sess, anyError, forced, rows, trk, call>>

\* Feedback on a Solution is recorded (seq counts the calls).
DoRecordSolutionFeedback(solution_id, was_helpful) ==
  /\ ret.seq < MaxFeedback
  /\ LET res == RecordSolutionFeedback(solutions, solution_id, was_helpful)
     IN /\ solutions' = res.table
        /\ ret' = [fn |-> "record_solution_feedback", seq |-> ret.seq + 1,
                   solution_id |-> solution_id, was_helpful |-> was_helpful,
                   value |-> res.value]
  /\ UNCHANGED <<now, conv, blocked, vindex, experts, instances, skipped, limit,
                 batch, idx, outcome, sess, anyError, forced, rows, trk, call>>

InitFeedback ==
  /\ now = 0
  /\ conv = [c \in Threads |-> NoConv]
  /\ blocked = [c \in Threads |-> NoBlocked]
  /\ solutions = [id \in SolutionKeys |-> NoSolutionRow]
  /\ vindex = {}
  /\ experts = [u \in Users |-> NoExpert]
  /\ instances = 0
  /\ skipped = FALSE
  /\ limit = BatchLimit
  /\ batch = <<>>
  /\ idx = 1
  /\ outcome = <<>>
  /\ sess = EmptySession
  /\ anyError = [c \in Threads |-> FALSE]
  /\ forced = NoForced
  /\ rows = <<>>
  /\ trk = <<>>
  /\ call = [fn |-> "none"]
  /\ ret = [fn |-> "none", seq |-> 0, solution_id |-> MalformedId,
            was_helpful |-> FALSE, value |-> FALSE]

NextFeedback ==
  \/ \E id \in SolutionKeys, u \in Users \cup {NoUser}, cat \in Categories \cup {NoCategory} :
       DoCreateSolution(id, u, cat)
  \/ \E id \in SolutionKeys \cup {MalformedId}, was_helpful \in BOOLEAN :
       DoRecordSolutionFeedback(id, was_helpful)

SpecFeedback == InitFeedback /\ [][NextFeedback]_vars

(* ---------------- the pipeline with force-processing ---------------- *)
\* A force-processing call between poll runs (its session against that of
\* a run in flight is not modelled).
ForceWhileIdle == instances = 0 /\ NextForce

\* Messages, poll runs and one force-processing call.
NextAll ==
  \/ Next
  \/ ForceWhileIdle

SpecAll == Init /\ [][NextAll]_vars

(* ---------------- the poll under fair ticks ---------------- *)
\* What a conversation's processing ends with when the message source or
\* the analysis oracle fails for it on every attempt, and when it succeeds.
FailingOutcomes == {"fetch_failed", "analysis_raised"}
SucceedingOutcomes == {"saved", "too_short", "no_solution"}

\* One iteration of the poll's loop, the conversation's thread being one of
\* those that fail on every attempt or one of those that succeed.
ProcItemAsFated ==
  /\ ProcItem
  /\ outcome'[idx] \in (IF batch[idx] \in call.failing THEN FailingOutcomes
                        ELSE SucceedingOutcomes)

\* Any table of conversations whose last message is in the past, no further
\* message, any set of threads whose processing always fails; the limit of
\* the query small as well as the poll's own.
InitLive ==
  /\ now = Delay + TickHours
  /\ conv \in [Threads -> QueryRows]
  /\ limit \in (1..MaxLimit) \cup {BatchLimit}
  /\ anyError = [c \in Threads |-> conv[c].is_error_thread]
  /\ blocked = [c \in Threads |-> NoBlocked]
  /\ solutions = {}
  /\ vindex = {}
  /\ experts = [u \in Users |-> NoExpert]
  /\ instances = 0
  /\ skipped = FALSE
  /\ batch = <<>>
  /\ idx = 1
  /\ outcome = <<>>
  /\ sess = EmptySession
  /\ forced = NoForced
  /\ rows = <<>>
  /\ trk = <<>>
  /\ call \in {[fn |-> "poll", failing |-> F] : F \in SUBSET Threads}
  /\ ret = [fn |-> "none"]

NextLive ==
  \/ PollTick
  \/ ProcItemAsFated
  \/ PollCommit

\* The interval trigger keeps firing and a started run keeps running.
SpecLive ==
  /\ InitLive
  /\ [][NextLive]_vars
  /\ WF_vars(PollTick)
  /\ WF_vars(ProcItemAsFated)
  /\ WF_vars(PollCommit)

(***************************************************************************)
(* Properties                                                              *)
(***************************************************************************)
BatchSet == {batch[i] : i \in DOMAIN batch}

\* The rows that satisfy the selection predicate now.
DueNow ==
  {c \in Threads : /\ conv[c].exists
                   /\ ~conv[c].is_processed
                   /\ conv[c].is_error_thread
                   /\ conv[c].process_after <= now}

\* The timestamp of the call that completes on thread c in this step.
CompletingTs(c) == IF blocked[c].set THEN blocked[c].message_ts ELSE now

\* C1: whenever a create_or_update call on a thread completes (its
\* message_count changes), whether it created the row or updated it, the
\* row's process_after is that message's timestamp plus the 12 h delay.
C1_ProcessAfterIsMessagePlusDelay ==
  [][\A c \in Threads :
       conv'[c].message_count # conv[c].message_count
         => conv'[c].process_after = CompletingTs(c) + Delay]_vars

\* A second message of a thread arrived later than the first and moved the deadline.
C1_Witness ==
  \E c \in Threads : /\ conv[c].message_count = 2
                     /\ conv[c].last_message_ts > 0
                     /\ conv[c].process_after = conv[c].last_message_ts + Delay

\* C2: is_error_thread of a thread is true exactly when at least one of the
\* completed create_or_update calls on it was classified as an error
\* candidate; a later call with is_error_thread=false never clears it.
C2_ErrorFlagIsMonotonicOr ==
  \A c \in Threads : conv[c].is_error_thread <=> anyError[c]

\* An error thread that received a later, non-error message.
C2_Witness ==
  \E c \in Threads : /\ conv[c].message_count = 2
                     /\ conv[c].is_error_thread
                     /\ conv[c].last_message_ts > 0

\* C3: once is_processed is true no later operation on the thread sets it
\* back to false.
C3_ProcessedIsTerminal ==
  [][\A c \in Threads : conv[c].is_processed => conv'[c].is_processed]_vars

\* C4 (as claimed): the poll's batch is exactly the set of rows with
\* is_processed=false, is_error_thread=true and process_after <= now.
C4_SelectedIffDue ==
  instances >= 1 => BatchSet = DueNow

\* C4 (amended): every selected row satisfies the predicate, and every row
\* satisfying it is selected unless more rows are due than the limit, in
\* which case exactly limit of them are selected.
C4_SelectedIffDueUpToLimit ==
  instances >= 1 =>
    /\ BatchSet \subseteq DueNow
    /\ Cardinality(BatchSet) = Min(limit, Cardinality(DueNow))
    /\ Cardinality(DueNow) <= limit => BatchSet = DueNow

\* A poll selected some rows and left out an existing row that fails the predicate.
C4_Witness ==
  /\ instances >= 1
  /\ BatchSet # {}
  /\ \E c \in Threads \ BatchSet : conv[c].exists /\ c \notin DueNow

\* C5: the batch is in ascending process_after, holds at most limit rows
\* (the poll passes 50), the rows left out when more are due are no earlier
\* than any row returned, and the rows are processed in batch order.
C5_BatchOrderedAndBounded ==
  instances >= 1 =>
    /\ Len(batch) <= limit
    /\ \A i, j \in DOMAIN batch :
         i < j => conv[batch[i]].process_after <= conv[batch[j]].process_after
    /\ \A c \in DueNow \ BatchSet : \A i \in DOMAIN batch :
         conv[batch[i]].process_after <= conv[c].process_after
    /\ \A i \in DOMAIN batch : (outcome[i] # "none") <=> (i < idx)

\* More rows were due than the limit; the earliest were returned and processed.
C5_Witness ==
  /\ instances >= 1
  /\ Len(batch) = limit
  /\ idx > Len(batch)
  /\ \E c \in DueNow \ BatchSet :
       conv[c].process_after > conv[batch[Len(batch)]].process_after

\* The outcomes in which the conversation was found insufficient.
Insufficient == {"too_short", "no_solution"}

\* The outcomes in which the message source or the analysis oracle failed.
SourceFailed == {"fetch_failed", "analysis_raised"}

\* The step is the commit that ends a poll run.
CommitStep == instances >= 1 /\ instances' = 0

\* C6: at most one execution of the poll job is in flight, and a tick that
\* fires during a run changes nothing of the run and starts no other one.
C6_SinglePollInFlight ==
  /\ instances <= 1
  /\ instances = 0 => (batch = <<>> /\ idx = 1 /\ ~skipped)

\* A tick fired while a run was in progress and was skipped.
C6_Witness ==
  instances = 1 /\ skipped /\ idx <= Len(batch)

C8_ExtractionIsAllOrNothing ==
  [][CommitStep =>
       \A c \in Threads :
         (\E sol \in solutions' \ solutions : sol.thread = c)
           <=> (/\ conv'[c].is_processed
                /\ \E sol \in solutions' \ solutions :
                     sol.thread = c /\ sol.id = conv'[c].extracted_solution_id)]_vars

\* C9: a conversation found insufficient (fewer than 2 messages, or no error
\* summary or solution text in the analysis) is marked processed, not
\* resolved, without a solution reference, and its processing creates no
\* Solution, no vector-index entry and no expert update.
C9_InsufficientIsMarkedUnresolved ==
  [][/\ \A i \in DOMAIN batch :
          (i \in DOMAIN outcome' /\ outcome[i] = "none" /\ outcome'[i] \in Insufficient) =>
             /\ sess'.marks[batch[i]] =
                  [set |-> TRUE, solution_id |-> NoSolution, is_resolved |-> FALSE]
             /\ sess'.sols = sess.sols
             /\ sess'.experts = sess.experts
             /\ sess'.touched = sess.touched
             /\ vindex' = vindex
     /\ CommitStep =>
          \A i \in DOMAIN batch :
            outcome[i] \in Insufficient =>
              /\ conv'[batch[i]].is_processed
              /\ conv'[batch[i]].is_resolved = "false"
              /\ conv'[batch[i]].extracted_solution_id = NoSolution
              /\ ~\E sol \in solutions' \ solutions : sol.thread = batch[i]]_vars

\* A conversation was marked processed, unresolved and without a solution.
C9_Witness ==
  \E c \in Threads : /\ conv[c].is_processed
                     /\ conv[c].is_resolved = "false"
                     /\ conv[c].extracted_solution_id = NoSolution

\* C10: when the thread fetch or the analysis oracle fails for a
\* conversation, its processing writes nothing (session and vector index
\* unchanged), and the commit of the run leaves its row as it was, still
\* unprocessed and due, with no Solution for it.
C10_SourceFailureLeavesRowUnchanged ==
  [][/\ \A i \in DOMAIN batch :
          (i \in DOMAIN outcome' /\ outcome[i] = "none" /\ outcome'[i] \in SourceFailed) =>
             (sess' = sess /\ vindex' = vindex /\ conv' = conv)
     /\ CommitStep =>
          \A i \in DOMAIN batch :
            outcome[i] \in SourceFailed =>
              /\ conv'[batch[i]] = conv[batch[i]]
              /\ ~conv'[batch[i]].is_processed
              /\ ~\E sol \in solutions' \ solutions : sol.thread = batch[i]]_vars

\* A run whose loop has ended had a conversation whose fetch or analysis
\* failed, and the conversation is still due.
C10_Witness ==
  /\ instances >= 1
  /\ idx > Len(batch)
  /\ \E i \in DOMAIN batch : outcome[i] \in SourceFailed /\ batch[i] \in DueNow

\* C11: a force-processing call (the immediate trigger or /cozum-ekle) on a
\* tracked thread leaves the persisted state that the deadline-triggered
\* flow leaves for the same thread messages and the same analysis: the same
\* Solution rows (creator included), the same index entries and metadata,
\* the same conversation marker and is_resolved, the same expert rows, also
\* when the thread is insufficient.
C11_ForceSameAsDeadline ==
  [][(forced = NoForced /\ forced' # NoForced /\ conv[forced'.thread].exists) =>
       LET d == DeadlineFlow(forced'.thread, forced'.inp)
       IN /\ conv' = d.db.conv
          /\ solutions' = d.db.solutions
          /\ experts' = d.db.experts
          /\ vindex' = d.db.vindex
          /\ forced'.metadata = d.metadata]_vars

\* C12: under any interleaving of concurrent tracking calls, two first
\* messages of one thread included, the Conversation table holds at most
\* one row per (channel, thread) key.
C12_OneRecordPerKey ==
  \A c \in Threads : Cardinality(RowsOf(rows, c)) <= 1

\* The documents of the index's answer whose similarity reaches the threshold.
Qualifying(results, min_similarity) ==
  {i \in DOMAIN results : One - results[i] >= min_similarity}

\* C16: retrieve returns exactly the documents of the index's answer whose
\* similarity 1 - distance is at least min_similarity, each with that
\* similarity, in the index's order; an empty answer gives an empty list.
C16_RetrieveFiltersAndKeepsOrder ==
  ret.fn = "retrieve" =>
    LET v == ret.value
        q == Qualifying(call.results, call.min_similarity)
    IN /\ {v[k].id : k \in DOMAIN v} = q
       /\ Len(v) = Cardinality(q)
       /\ \A k \in DOMAIN v : v[k].similarity = One - call.results[v[k].id]
       /\ \A k, l \in DOMAIN v : k < l => v[k].id < v[l].id
       /\ call.results = <<>> => v = <<>>

\* A document under the threshold was dropped and two others were returned.
C16_Witness ==
  /\ ret.fn = "retrieve"
  /\ Len(ret.value) = 2
  /\ Len(call.results) = 3
  /\ ret.value[1].similarity > ret.value[2].similarity

\* The list retrieval gives for the call under examination.
Retrieved ==
  IF call.fn = "query" /\ call.context
  THEN RetrieveWithContext(call.results)
  ELSE Retrieve(call.results, call.min_similarity)

\* C17: query returns a response whose confidence is the arithmetic mean of
\* the similarities of the retrieved results (0 when nothing was
\* retrieved), whose has_solutions is true exactly when something was
\* retrieved, and whose source list has one entry per retrieved result in
\* the same order.
C17_ConfidenceIsMeanSimilarity ==
  ret.fn = "query" =>
    LET v == ret.value
        docs == Retrieved
    IN /\ v.py = "RAGResponse"
       /\ IF docs = <<>>
          THEN v.confidence.num = 0
          ELSE /\ v.confidence.num = SumSimilarity(docs, 1)
               /\ v.confidence.den = Len(docs)
       /\ v.has_solutions <=> docs # <<>>
       /\ Len(v.sources) = Len(docs)
       /\ \A k \in DOMAIN docs : v.sources[k].id = docs[k].id

\* C13: on the proactive path the generation oracle is asked for a
\* suggestion only when retrieval returned a qualifying result; when none
\* qualifies no suggestion is produced or posted and the caller falls back
\* to expert routing.
C13_ProactiveFallsBackToExperts ==
  /\ ret.fn = "get_proactive_suggestion" =>
       /\ ret.value.asked => Retrieved # <<>>
       /\ Retrieved = <<>> => ret.value.value = PyNone
  /\ ret.fn = "suggest_solution" =>
       /\ ret.value.posted = "suggestion" => Retrieved # <<>>
       /\ Retrieved = <<>> => ret.value.routed

\* C18: expertise_areas and machine_types of every expert only grow: no
\* expert update of the pipeline or of the expert service removes an
\* element that was in either set.
C18_ExpertiseOnlyGrows ==
  [][\A u \in DOMAIN experts :
       /\ experts[u].expertise_areas \subseteq experts'[u].expertise_areas
       /\ experts[u].machine_types \subseteq experts'[u].machine_types]_vars

\* C14: find_experts returns at most limit experts and no expert twice,
\* also when an expert matches by machine type, by category and by global
\* rank; with two machine-type matches and limit 3 at most one further
\* expert is added.
C14_AtMostLimitNoDuplicates ==
  ret.fn = "find_experts" =>
    /\ Len(ret.experts) <= call.limit
    /\ \A i, j \in DOMAIN ret.experts : i # j => ret.experts[i] # ret.experts[j]
    /\ (ret.by_machine = 2 /\ call.limit = 3) => Len(ret.experts) - ret.by_machine <= 1

\* Two experts were selected by machine type with limit 3 and one more was
\* added, while an expert of the result matches all three criteria and a
\* fourth available expert was left out.
C14_Witness ==
  /\ ret.fn = "find_experts"
  /\ call.limit = 3
  /\ ret.by_machine = 2
  /\ Len(ret.experts) = 3
  /\ call.category \in experts[ret.experts[1]].expertise_areas
  /\ \E u \in Roster \ Range(ret.experts) : AvailableExpert(experts[u])

\* C15: in the result the experts selected by machine type come first (each
\* available, with the machine type, the best ranked of those), then those
\* appended by category (each with the category), then those appended from
\* the global top list; within each group solution_count is descending, and
\* every returned expert is available.
C15_GroupsInOrderRankedAvailable ==
  ret.fn = "find_experts" =>
    LET r == ret.experts
        n1 == ret.by_machine
        n2 == ret.by_machine + ret.by_category
        Group(i) == IF i <= n1 THEN 1 ELSE IF i <= n2 THEN 2 ELSE 3
    IN /\ n2 <= Len(r)
       /\ \A i \in DOMAIN r : experts[r[i]].exists /\ experts[r[i]].is_available
       /\ \A i \in DOMAIN r :
            /\ Group(i) = 1 => call.machine_type \in experts[r[i]].machine_types
            /\ Group(i) = 2 => call.category \in experts[r[i]].expertise_areas
       /\ \A i, j \in DOMAIN r :
            (i < j /\ Group(i) = Group(j)) =>
               experts[r[i]].solution_count >= experts[r[j]].solution_count
       /\ \A u \in Roster \ Range(r) :
            (experts[u].exists /\ experts[u].is_available
               /\ call.machine_type \in experts[u].machine_types) =>
              \A i \in 1..n1 : experts[r[i]].solution_count >= experts[u].solution_count

\* All three groups contributed one expert each, and an unavailable expert
\* with the machine type and more solutions than the first was left out.
C15_Witness ==
  /\ ret.fn = "find_experts"
  /\ ret.by_machine = 1
  /\ ret.by_category = 1
  /\ Len(ret.experts) = 3
  /\ \E u \in Roster \ Range(ret.experts) :
       /\ experts[u].exists /\ ~experts[u].is_available
       /\ call.machine_type \in experts[u].machine_types
       /\ experts[u].solution_count > experts[ret.experts[1]].solution_count

\* The number of places in text at which kw occurs.
Occurrences(kw, text) ==
  Cardinality({i \in 1..(Len(text) - Len(kw) + 1) : SubSeq(text, i, i + Len(kw) - 1) = kw})

\* The score of entry k counted by keyword occurrences.
OccurrenceScore(k, text_lower) ==
  SumOver([j \in DOMAIN CategoryKeywords[k].keywords |->
             Occurrences(CategoryKeywords[k].keywords[j], text_lower)],
          DOMAIN CategoryKeywords[k].keywords)

\* The score of entry k counted by keywords present.
PresenceScore(k, text_lower) ==
  Cardinality({j \in DOMAIN CategoryKeywords[k].keywords :
                 Occurrences(CategoryKeywords[k].keywords[j], text_lower) > 0})

\* value is the category the scores Score(k) select: the first-declared
\* entry with the highest score, none when every score is 0.
Selects(value, Score(_)) ==
  IF \A k \in DOMAIN CategoryKeywords : Score(k) = 0
  THEN value = NoCategory
  ELSE \E k \in DOMAIN CategoryKeywords :
         /\ value = CategoryKeywords[k].category
         /\ Score(k) > 0
         /\ \A l \in DOMAIN CategoryKeywords :
              /\ Score(l) <= Score(k)
              /\ l < k => Score(l) < Score(k)

\* C19 (as claimed): a category supplied by the analysis is used as is;
\* otherwise every category is scored by the number of occurrences of its
\* keywords in the lowered thread text and the first-declared category with
\* the highest score is returned, none when no keyword occurs.
C19_CategoryByKeywordOccurrences ==
  ret.fn = "category" =>
    IF call.analysis_category # NoCategory
    THEN ret.value = call.analysis_category
    ELSE LET text_lower == Lower(Join(call.messages))
             Score(k) == OccurrenceScore(k, text_lower)
         IN Selects(ret.value, Score)

\* C19 (amended): as above, but the score of a category is the number of
\* its keywords that occur at least once in the text lowered by str.lower():
\* a keyword that occurs several times counts once.
C19_CategoryByKeywordsPresent ==
  ret.fn = "category" =>
    IF call.analysis_category # NoCategory
    THEN ret.value = call.analysis_category
    ELSE LET text_lower == Lower(Join(call.messages))
             Score(k) == PresenceScore(k, text_lower)
         IN Selects(ret.value, Score)

\* Two categories had the same positive score and the first-declared one
\* was returned, for a text with an upper-case keyword.
C19_Witness ==
  /\ ret.fn = "category"
  /\ call.analysis_category = NoCategory
  /\ ret.value = "sensör"
  /\ LET text_lower == Lower(Join(call.messages))
     IN /\ PresenceScore(2, text_lower) = PresenceScore(3, text_lower)
        /\ text_lower # Join(call.messages)

\* The positions of the second half of the call's thread: from len // 2 on.
SecondHalf == {i \in DOMAIN call.authors : i > Len(call.authors) \div 2}

\* The messages of user u in the second half.
InSecondHalf(u) == {i \in SecondHalf : call.authors[i] = u}

\* C20: the resolver is the author with the most messages among those from
\* the midpoint len // 2 to the end, whatever the first half holds; of
\* authors with equally many, the one met first in the second half; none
\* for an empty list or a second half without an authored message.
C20_ResolverIsTopAuthorOfSecondHalf ==
  ret.fn = "resolver" =>
    IF \A u \in ThreadAuthors : InSecondHalf(u) = {}
    THEN ret.value = NoUser
    ELSE /\ ret.value \in ThreadAuthors
         /\ InSecondHalf(ret.value) # {}
         /\ \A u \in ThreadAuthors \ {ret.value} :
              \/ Cardinality(InSecondHalf(u)) < Cardinality(InSecondHalf(ret.value))
              \/ /\ Cardinality(InSecondHalf(u)) = Cardinality(InSecondHalf(ret.value))
                 /\ \E i \in InSecondHalf(ret.value) : \A j \in InSecondHalf(u) : i < j

\* U1 wrote more messages in the whole thread, U2 as many as U1 in the
\* second half and the first of them: U2 is the resolver.
C20_Witness ==
  /\ ret.fn = "resolver"
  /\ ret.value = "U2"
  /\ Len(call.authors) = 4
  /\ call.authors[1] = "U1"
  /\ call.authors[2] = "U1"
  /\ call.authors[3] = "U2"
  /\ call.authors[4] = "U1"

\* The solution text of the call under examination.
SolutionText == call.solution_text

\* A list marker of the given kind stands at position p: a number followed
\* by "." or ")", or one of the bullet characters.
IsHead(kind, p) ==
  /\ p \in DOMAIN SolutionText
  /\ IF kind = "numbered"
     THEN \E q \in (p + 1)..Len(SolutionText) :
            /\ SolutionText[q] \in Separators
            /\ \A i \in p..(q - 1) : SolutionText[i] \in Digits
     ELSE SolutionText[p] \in Bullets

\* The position after the marker at p.
BodyStart(kind, p) ==
  IF kind = "numbered"
  THEN 1 + CHOOSE q \in (p + 1)..Len(SolutionText) :
             /\ SolutionText[q] \in Separators
             /\ \A i \in p..(q - 1) : SolutionText[i] \in Digits
  ELSE p + 1

\* An item can start at p: a marker with at least one character after it.
IsItem(kind, p) == IsHead(kind, p) /\ BodyStart(kind, p) <= Len(SolutionText)

\* The item's text starts after the whitespace that follows the marker (at
\* the last character when only whitespace follows) ...
ItemFrom(kind, p) ==
  LET rest == {i \in BodyStart(kind, p)..Len(SolutionText) :
                 SolutionText[i] \notin Whitespace}
  IN IF rest = {} THEN Len(SolutionText)
     ELSE CHOOSE i \in rest : \A j \in rest : i <= j

\* ... and runs to the character before the next marker of its kind, before
\* a line break that ends the text, or to the end of the text.
ItemTo(kind, p) ==
  LET stops == {e \in ItemFrom(kind, p)..Len(SolutionText) :
                  \/ e = Len(SolutionText)
                  \/ e = Len(SolutionText) - 1 /\ SolutionText[Len(SolutionText)] = "nl"
                  \/ IsHead(kind, e + 1)}
  IN CHOOSE e \in stops : \A f \in stops : e <= f

\* The items of the given kind, by the positions of their markers: taken
\* from left to right, a marker inside an earlier item starts no item.
Items(kind) ==
  CHOOSE H \in SUBSET DOMAIN SolutionText :
    /\ \A p \in H : IsItem(kind, p)
    /\ \A p, q \in H : p < q => ItemTo(kind, p) < q
    /\ \A q \in DOMAIN SolutionText \ H :
         IsItem(kind, q) => \E p \in H : p < q /\ q <= ItemTo(kind, p)

\* s without its leading and trailing whitespace.
Trimmed(s) ==
  LET inked == {i \in DOMAIN s : s[i] \notin Whitespace}
  IN IF inked = {} THEN <<>>
     ELSE SubSeq(s, CHOOSE i \in inked : \A j \in inked : i <= j,
                    CHOOSE i \in inked : \A j \in inked : i >= j)

\* The texts of the items of the given kind in text order.
ItemTexts(kind) ==
  LET H == Items(kind)
      Nth(i) == CHOOSE p \in H : Cardinality({q \in H : q < p}) = i - 1
  IN [i \in 1..Cardinality(H) |->
        Trimmed(SubSeq(SolutionText, ItemFrom(kind, Nth(i)), ItemTo(kind, Nth(i))))]

\* C21: when the solution text holds at least 2 numbered items, the steps
\* are those items, one step per item in text order; otherwise, when it
\* holds at least 2 bullet items, the steps are those; when neither kind
\* has 2 items there are no structured steps.
C21_StepsNumberedThenBullets ==
  ret.fn = "steps" =>
    IF Cardinality(Items("numbered")) >= 2
    THEN ret.value = [py |-> "dict", steps |-> ItemTexts("numbered")]
    ELSE IF Cardinality(Items("bullet")) >= 2
    THEN ret.value = [py |-> "dict", steps |-> ItemTexts("bullet")]
    ELSE ret.value = PyNone

\* A text with one numbered item and two bullet items: the bullet items are
\* the steps.
C21_Witness ==
  /\ ret.fn = "steps"
  /\ Cardinality(Items("numbered")) = 1
  /\ Cardinality(Items("bullet")) = 2
  /\ ret.value.py = "dict"
  /\ Len(ret.value.steps) = 2

\* What a user can get instead of an answer: nothing, a "nothing found"
\* notice, an apology.
Degraded == {"nothing", "not_found", "error_notice"}

C23_ResolvedOnlyIfProcessed ==
  \A c \in Threads :
    (conv[c].exists /\ ~conv[c].is_processed) =>
       /\ conv[c].is_resolved = "null"
       /\ conv[c].extracted_solution_id = NoSolution

\* No tracking call on thread c is in flight.
Quiet(c) == \A h \in Listeners : trk.call[h].pc = "idle" \/ trk.call[h].thread # c

\* C24: when N tracking calls on a thread have completed and none is in
\* flight, the thread's record has message_count = N, also when some of
\* the calls ran concurrently.
C24_MessageCountIsCallCount ==
  \A c \in Threads :
    (Quiet(c) /\ Cardinality(RowsOf(rows, c)) = 1) =>
       \A i \in RowsOf(rows, c) : rows[i].row.message_count = trk.done[c]

\* The step records feedback on a stored Solution.
FeedbackOn(id) ==
  /\ ret'.seq = ret.seq + 1
  /\ ret'.solution_id = id
  /\ solutions[id].exists

C26_OneSolutionPerThread ==
  \A c \in Threads : Cardinality({sol \in solutions : sol.thread = c}) <= 1

\* C27: whenever the deadline-triggered flow marks a conversation
\* processed, in its session and at the commit that makes the marker
\* visible, the conversation's process_after <= now still holds: no message
\* recorded after the poll's selection is covered by the marker.
C27_MarkedOnlyWhileDue ==
  [][\A c \in Threads :
       /\ (~sess.marks[c].set /\ sess'.marks[c].set) => conv[c].process_after <= now
       /\ (~conv[c].is_processed /\ conv'[c].is_processed) =>
             conv'[c].process_after <= now]_vars

\* C28: under fair poll ticks a conversation that is due, gets no further
\* message and whose processing succeeds when attempted is eventually
\* processed, however many due conversations that fail on every attempt
\* stand before it in process_after order.
C28_DueConversationEventuallyProcessed ==
  \A c \in Threads :
    (c \in DueNow /\ c \notin call.failing
       /\ \A d \in DueNow \cap call.failing :
            conv[d].process_after < conv[c].process_after)
      ~> conv[c].is_processed

\* C29: whenever no poll run is in flight (each run completed or failed),
\* the solution ids in the vector index are exactly the ids of the
\* committed Solution rows.
C29_IndexMatchesCommittedSolutions ==
  instances = 0 => vindex = {sol.id : sol \in solutions}

\* The available experts of the table.
AvailableExperts == {u \in Roster : AvailableExpert(experts[u])}

\* C30: find_experts returns min(limit, number of available experts)
\* experts: exactly limit of them whenever that many are available, also
\* when the category stage or the global-top stage returns experts that are
\* already in the list.
C30_ReturnsLimitWhenAvailable ==
  ret.fn = "find_experts" =>
    Len(ret.experts) = Min(call.limit, Cardinality(AvailableExperts))

====
